---- MODULE Spec2Model ----
(***************************************************************************)
(* Model of the ISA backend (app/main.py and app/routers/*.py).            *)
(*                                                                         *)
(* Python floats are modelled as signed fixed-point integers.  Every       *)
(* quantity has a fixed scale, written as a suffix of the comment next to  *)
(* it (e.g. altitude in 1e-4 m, speed in 1e-2 m/s).  A product or a        *)
(* quotient of two fixed-point numbers is computed exactly and rounded     *)
(* down to the scale of the result (FxMul); math.sqrt is the integer       *)
(* square root; math.log and the fractional power are computed by the      *)
(* usual series on fixed-point numbers.  Non-finite floats (inf, nan) and  *)
(* float overflow are outside the model.                                   *)
(***************************************************************************)
EXTENDS Integers, Sequences, FiniteSets, TLC

VARIABLES
    req,      \* the request the sequential server handled last
    out,      \* the outcome the handler produced for req
    globals,  \* module-level names of app/routers/isa.py (T0, P0, L, g0, R, gamma)
    wpc,      \* per worker thread: position inside its handler
    wreq,     \* per worker thread: the request it is serving
    wloc,     \* per worker thread: the handler's local variables
    wout,     \* per worker thread: the outcome of the request
    GROQ_API_KEY, \* module-level name of app/routers/ask.py, read from the environment
    apc,      \* ask handler: position
    calls,    \* ask handler: number of requests.post calls made for the current request
    reply     \* ask handler: what the text-generation service answered, once it has

vars == <<req, out, globals, wpc, wreq, wloc, wout, GROQ_API_KEY, apc, calls, reply>>

None == <<>>
Some(v) == <<v>>

----------------------------------------------------------------------------
(* Fixed-point arithmetic                                                  *)

Abs(x) == IF x < 0 THEN -x ELSE x

\* <<q, r>> with a*b = q*d + r and 0 <= r < d, for a, b >= 0 and 0 < d < 2^30,
\* computed without forming the product a*b.
RECURSIVE MulDivQR(_, _, _)
MulDivQR(a, b, d) ==
    IF b = 0 THEN <<0, 0>>
    ELSE LET h  == MulDivQR(a, b \div 2, d)
             q2 == 2 * h[1] + (2 * h[2]) \div d
             r2 == (2 * h[2]) % d
         IN  IF b % 2 = 0 THEN <<q2, r2>>
             ELSE <<q2 + (a \div d) + (r2 + (a % d)) \div d, (r2 + (a % d)) % d>>

\* floor(a*b/d) for signed a, b and d > 0: the float product/quotient,
\* rounded down to the grid of the result.  (Callers test d > 0 before they
\* divide; the recursion runs over the smaller factor.)
FxMul(a, b, d) ==
    IF a = 0 \/ b = 0 \/ d <= 0 THEN 0
    ELSE LET qr == IF Abs(a) >= Abs(b) THEN MulDivQR(Abs(a), Abs(b), d)
                   ELSE MulDivQR(Abs(b), Abs(a), d)
         IN  IF (a > 0) = (b > 0) THEN qr[1]
             ELSE IF qr[2] = 0 THEN -qr[1] ELSE -qr[1] - 1

\* floor(a*b/d) for signed d /= 0.
FxDiv(a, b, d) == IF d > 0 THEN FxMul(a, b, d) ELSE FxMul(-a, b, -d)

\* largest s in lo..hi with s*s <= n (hi <= 46340 keeps s*s in range)
RECURSIVE ISqrtIn(_, _, _)
ISqrtIn(n, lo, hi) ==
    IF lo >= hi THEN lo
    ELSE LET mid == (lo + hi + 1) \div 2
         IN  IF mid * mid <= n THEN ISqrtIn(n, mid, hi) ELSE ISqrtIn(n, lo, mid - 1)

ISqrt(n) == IF n <= 0 THEN 0 ELSE ISqrtIn(n, 0, 46340)

\* sqrt of a ratio x [1e-4], result [1e-4]
FxSqrt4(x) == ISqrt(x * 10000)

\* x^(e/4096) for a ratio x [1e-4], 0 < x*10000 < 2^31, e >= 0: integer part by
\* square-and-multiply, fractional part as a product of repeated square roots.
RECURSIVE FxPowInt(_, _)
FxPowInt(x, n) ==
    IF n = 0 THEN 10000
    ELSE LET h == FxPowInt(x, n \div 2)
             s == FxMul(h, h, 10000)
         IN  IF n % 2 = 0 THEN s ELSE FxMul(s, x, 10000)

RECURSIVE FxPowFrac(_, _, _)
FxPowFrac(root, f, bit) ==
    IF bit = 0 THEN 10000
    ELSE LET r == FxSqrt4(root)
             rest == FxPowFrac(r, f % bit, bit \div 2)
         IN  IF f >= bit THEN FxMul(r, rest, 10000) ELSE rest

FxPow(x, e) == FxMul(FxPowInt(x, e \div 4096), FxPowFrac(x, e % 4096, 2048), 10000)

----------------------------------------------------------------------------
(* app/routers/isa.py                                                      *)

\* module-level constants of isa.py
T0    == 2881500     \* 288.15 K      [1e-4 K]
P0    == 1013250     \* 101325.0 Pa   [1e-1 Pa]
L     == -65         \* -0.0065 K/m   [1e-4 K/m]
g0    == 980665      \* 9.80665       [1e-5 m/s^2]
R     == 28705287    \* 287.05287     [1e-5 J/(kg K)]
gamma == 14          \* 1.4           [1e-1]

IsaGlobals == [T0 |-> T0, P0 |-> P0, L |-> L, g0 |-> g0, R |-> R, gamma |-> gamma]

\* max(0.0, min(11000.0, altitude_m)), altitude [1e-4 m]
Min(a, b) == IF b < a THEN b ELSE a
Max(a, b) == IF b > a THEN b ELSE a
Clamp(altitude_m) == Max(0, Min(110000000, altitude_m))

\* T = T0 + L*h                                      [1e-4 K]
Temperature(g, h) == g.T0 + FxMul(h, g.L, 10000)
\* exponent = -g0 / (L*R)                            [1/4096]
Exponent(g) == FxDiv(g.g0, 4096000, -FxMul(g.R, g.L, 10))
\* P = P0 * (T/T0) ** exponent                       [1e-1 Pa]
Pressure(g, T) == FxMul(g.P0, FxPow(FxMul(T, 10000, g.T0), Exponent(g)), 10000)
\* rho = P / (R*T)                                   [1e-4 kg/m^3]
Density(g, P, T) == FxMul(P, 10000000, FxMul(T, g.R, 100000))
\* a = sqrt(gamma*R*T)                               [1e-2 m/s]
SpeedOfSound(g, T) == ISqrt(FxMul(T, g.gamma * g.R, 1000000))

\* the four formula lines of the troposphere model at altitude h
IsaFormula(g, h) ==
    LET T == Temperature(g, h)
        P == Pressure(g, T)
    IN  [T |-> T, P |-> P, rho |-> Density(g, P, T), a |-> SpeedOfSound(g, T)]

isa_tropo(g, altitude_m) == IsaFormula(g, Clamp(altitude_m))

\* isa_tropo that assigns the temperature to the module-level T0 (global T0)
isa_tropo_globals_T0(g, altitude_m) == [g EXCEPT !.T0 = Temperature(g, Clamp(altitude_m))]

\* isa_tropo assigns its locals h, T, exponent, P, rho, a only: the module-level
\* names are after the call what they were before
isa_tropo_globals(g, altitude_m) == g

\* ISAResponse(...) from the tuple s = (T, P, rho, a)
ISAResponse(s, r) ==
    [kind |-> "Atmosphere", altitude_m |-> r.altitude_m, temperature_K |-> s.T,
     pressure_Pa |-> s.P, density_kg_m3 |-> s.rho, speed_of_sound_m_s |-> s.a]

\* POST /isa/atmosphere
isa_atmosphere(g, r) == ISAResponse(isa_tropo(g, r.altitude_m), r)

----------------------------------------------------------------------------
(* app/main.py                                                             *)

\* the constants isa_endpoint defines as locals
MainLocals == [T0 |-> 2881500, P0 |-> 1013250, L |-> -65, g0 |-> 980665,
               R |-> 28705800, gamma |-> 14]

\* GET /api/isa: the formula on the altitude as given.  With T = 0 the
\* density line divides by zero; with T < 0 the power of a negative base is
\* a complex number in Python, and so is everything computed from it.
isa_endpoint(r) ==
    LET T == Temperature(MainLocals, r.altitude_m)
        s == IsaFormula(MainLocals, r.altitude_m)
    IN  IF T = 0 THEN [kind |-> "ZeroDivisionError"]
        ELSE IF T < 0 THEN [kind |-> "ComplexResult", altitude_m |-> r.altitude_m,
                            temperature_K |-> T]
        ELSE [kind |-> "Atmosphere", altitude_m |-> r.altitude_m, temperature_K |-> s.T,
              pressure_Pa |-> s.P, density_kg_m3 |-> s.rho, speed_of_sound_m_s |-> s.a]

----------------------------------------------------------------------------
(* app/routers/mach.py                                                     *)

MachSpeedUnit == {"m/s", "ft/s", "knots"}

\* field validator of MachRequest.speed_value
speed_positive(v) == v > 0

\* a pydantic validation failure (HTTP 422)
ValidationError(detail) == [kind |-> "InvalidInput", status |-> 422, detail |-> detail]
\* raise HTTPException(status_code=..., detail=...)
HTTPException(status, detail) ==
    [kind |-> IF status = 400 THEN "InvalidInput" ELSE "InternalError",
     status |-> status, detail |-> detail]

\* speed [1e-2 unit] to m/s [1e-2 m/s]; speed_unit is one of MachSpeedUnit (the
\* request type admits no other), so the "Unsupported speed unit" branch is dead
MachToMs(speed_value, speed_unit) ==
    IF speed_unit = "m/s" THEN speed_value
    ELSE IF speed_unit = "ft/s" THEN FxMul(speed_value, 100000, 328084)
    ELSE FxMul(speed_value, 514444, 1000000)

\* FlowRegime with the band boundaries closed on the upper side
FlowRegimeClosedAbove(mach) ==
    IF mach <= 300 THEN "Incompressible"
    ELSE IF mach <= 800 THEN "Subsonic"
    ELSE IF mach <= 1200 THEN "Transonic"
    ELSE IF mach <= 5000 THEN "Supersonic"
    ELSE "Hypersonic"

\* flow regime classification, mach [1e-3]
FlowRegime(mach) ==
    IF mach < 300 THEN "Incompressible"
    ELSE IF mach < 800 THEN "Subsonic"
    ELSE IF mach < 1200 THEN "Transonic"
    ELSE IF mach < 5000 THEN "Supersonic"
    ELSE "Hypersonic"

\* MachAltitudeError with the upper limit itself rejected
MachAltitudeErrorAtLimit(r) ==
    IF r.altitude_m >= 110000000
    THEN Some(HTTPException(400, "Backend Mach model currently supports up to 11,000 m (11 km)."))
    ELSE IF r.altitude_m < 0 THEN Some(HTTPException(400, "Altitude must be non-negative"))
    ELSE None

\* compute_mach up to the call of isa_tropo: the two altitude checks
MachAltitudeError(r) ==
    IF r.altitude_m > 110000000
    THEN Some(HTTPException(400, "Backend Mach model currently supports up to 11,000 m (11 km)."))
    ELSE IF r.altitude_m < 0 THEN Some(HTTPException(400, "Altitude must be non-negative"))
    ELSE None

\* compute_mach after the call of isa_tropo, s = (T, P, rho, a); isa_tropo
\* raises nothing on a clamped altitude, so "ISA model error" has no case here
MachFromAtmosphere(s, r) ==
    LET V_ms == MachToMs(r.speed_value, r.speed_unit)
        mach == FxMul(V_ms, 1000, s.a)
    IN  IF s.a <= 0 THEN HTTPException(500, "Invalid speed of sound")
        ELSE [kind |-> "MachResult", altitude_m |-> r.altitude_m,
              speed_input |-> r.speed_value, speed_unit |-> r.speed_unit,
              speed_m_s |-> V_ms, mach |-> mach, speed_of_sound_m_s |-> s.a,
              temperature_K |-> s.T, flow_regime |-> FlowRegime(mach)]

compute_mach(g, r) ==
    IF MachAltitudeError(r) # None THEN MachAltitudeError(r)[1]
    ELSE MachFromAtmosphere(isa_tropo(g, r.altitude_m), r)

\* POST /api/mach/compute: request validation, then the handler
MachEndpoint(g, r) ==
    IF ~speed_positive(r.speed_value) THEN ValidationError("Speed must be positive")
    ELSE compute_mach(g, r)

----------------------------------------------------------------------------
(* app/routers/lift_drag.py                                                *)

AltUnit     == {"meters", "feet", "kilometers"}
LDSpeedUnit == {"m/s", "kt", "ft/s"}
AreaUnit    == {"m2", "ft2"}
WeightUnit  == {"N", "lbf"}

\* field validator of LiftDragRequest.speed_value and .wing_area_value
must_be_positive(v) == v > 0

\* altitude [1e-4 unit] to meters [1e-4 m]
_to_meters(altitude_value, unit) ==
    IF unit = "meters" THEN altitude_value
    ELSE IF unit = "feet" THEN FxMul(altitude_value, 3048, 10000)
    ELSE altitude_value * 1000

\* speed [1e-2 unit] to m/s [1e-2 m/s]
_to_m_s(speed, unit) ==
    IF unit = "m/s" THEN speed
    ELSE IF unit = "ft/s" THEN FxMul(speed, 3048, 10000)
    ELSE FxMul(speed, 514444, 1000000)

\* area [1e-2 unit] to m^2 [1e-2 m^2]
_to_m2(area, unit) ==
    IF unit = "m2" THEN area
    ELSE FxMul(area, 92903, 1000000)

\* weight [1e-2 unit] to newtons [1e-2 N]; 4.4482216153 = 4 + 0.4482216153
_to_newtons(weight, unit) ==
    IF unit = "N" THEN weight
    ELSE 4 * weight + FxMul(weight, 448221615, 1000000000)

\* LdRatio that divides whenever the drag is not zero
LdRatioNonZero(lift, drag) == IF drag # 0 THEN FxDiv(lift, 10000, drag) ELSE 0

\* ld_ratio = L / D if D > 0 else 0.0                     [1e-4]
LdRatio(lift, drag) == IF drag > 0 THEN FxMul(lift, 10000, drag) ELSE 0

\* WeightMetrics that computes the metrics for every weight but a negative one
WeightMetricsNonNegative(r, lift) ==
    IF r.weight_value # None /\ r.weight_unit # None
    THEN LET W_N == _to_newtons(r.weight_value[1], r.weight_unit[1])
         IN  IF W_N >= 0
             THEN [weight_N |-> Some(W_N), load_factor |-> Some(FxMul(lift, 10000, W_N)),
                   lift_excess_N |-> Some(lift - W_N)]
             ELSE [weight_N |-> Some(W_N), load_factor |-> None, lift_excess_N |-> None]
    ELSE [weight_N |-> None, load_factor |-> None, lift_excess_N |-> None]

\* the weight-based metrics: W_N, load_factor [1e-4], L_excess [1e-2 N];
\* each is None or Some(value)
WeightMetrics(r, lift) ==
    IF r.weight_value # None /\ r.weight_unit # None
    THEN LET W_N == _to_newtons(r.weight_value[1], r.weight_unit[1])
         IN  IF W_N > 0
             THEN [weight_N |-> Some(W_N), load_factor |-> Some(FxMul(lift, 10000, W_N)),
                   lift_excess_N |-> Some(lift - W_N)]
             ELSE [weight_N |-> Some(W_N), load_factor |-> None, lift_excess_N |-> None]
    ELSE [weight_N |-> None, load_factor |-> None, lift_excess_N |-> None]

\* compute_lift_drag up to the call of isa_tropo
LiftDragAltitudeError(r) ==
    IF _to_meters(r.altitude_value, r.altitude_unit) < 0
    THEN Some(HTTPException(400, "Altitude must be non-negative"))
    ELSE None

\* LiftDragAltitude without the upper clamp
LiftDragAltitudeUnclamped(r) == Max(0, _to_meters(r.altitude_value, r.altitude_unit))

\* alt_m_clamped = max(0.0, min(11000.0, alt_m))
LiftDragAltitude(r) == Max(0, Min(110000000, _to_meters(r.altitude_value, r.altitude_unit)))

\* compute_lift_drag after the call of isa_tropo, s = (T, P, rho, a)
LiftDragFromAtmosphere(s, r) ==
    LET alt_m_clamped == LiftDragAltitude(r)
        V_ms  == _to_m_s(r.speed_value, r.speed_unit)
        S_m2  == _to_m2(r.wing_area_value, r.wing_area_unit)
        q     == FxMul(FxMul(5, s.rho, 10), FxMul(V_ms, V_ms, 100), 10000)  \* [1e-2 Pa]
        lift  == FxMul(FxMul(q, S_m2, 100), r.cl, 100)                      \* [1e-2 N]
        drag  == FxMul(FxMul(q, S_m2, 100), r.cd, 100)                      \* [1e-2 N]
        w     == WeightMetrics(r, lift)
    IN  IF s.rho <= 0 THEN HTTPException(500, "Invalid air density from ISA")
        ELSE [kind |-> "LiftDragResult", altitude_m |-> alt_m_clamped, rho_kg_m3 |-> s.rho,
              temperature_K |-> s.T, speed_m_s |-> V_ms, q_Pa |-> q, lift_N |-> lift,
              drag_N |-> drag, ld_ratio |-> LdRatio(lift, drag), wing_area_m2 |-> S_m2,
              cl |-> r.cl, cd |-> r.cd, weight_N |-> w.weight_N,
              load_factor |-> w.load_factor, lift_excess_N |-> w.lift_excess_N]

compute_lift_drag(g, r) ==
    IF LiftDragAltitudeError(r) # None THEN LiftDragAltitudeError(r)[1]
    ELSE LiftDragFromAtmosphere(isa_tropo(g, LiftDragAltitude(r)), r)

\* POST /api/lift-drag/compute: request validation, then the handler
LiftDragEndpoint(g, r) ==
    IF ~must_be_positive(r.speed_value) \/ ~must_be_positive(r.wing_area_value)
    THEN ValidationError("Value must be positive")
    ELSE compute_lift_drag(g, r)

----------------------------------------------------------------------------
(* app/routers/fuel_range.py and app/routers/mission_planner.py            *)

\* math.log on a ratio x > 0 [1e-4], result [1e-4]: range reduction by
\* powers of two, then ln m = 2*atanh((m-1)/(m+1)) on 1 <= m < 2.
LnSeries(m) ==
    LET z  == FxMul(m - 10000, 10000, m + 10000)
        z2 == FxMul(z, z, 10000)
        z3 == FxMul(z, z2, 10000)
        z5 == FxMul(z3, z2, 10000)
        z7 == FxMul(z5, z2, 10000)
    IN  2 * (z + z3 \div 3 + z5 \div 5 + z7 \div 7)

RECURSIVE Ln(_)
Ln(x) ==
    IF x >= 20000 THEN 6931 + Ln(x \div 2)
    ELSE IF x < 10000 THEN Ln(2 * x) - 6931
    ELSE LnSeries(x)

\* field validator of FuelRangeRequest and of MissionPlanRequest
positive_values(v) == v > 0

\* WeightsInvalid that lets a final mass of zero through
WeightsInvalidStrict(Wi, Wf) == Wf < 0 \/ Wi <= Wf

\* the weight check both calculators make: Wf <= 0 or Wi <= Wf
WeightsInvalid(Wi, Wf) == Wf <= 0 \/ Wi <= Wf

\* an exception no handler catches (the framework answers 500)
Uncaught(exc, log_arg) == [kind |-> exc, status |-> 500, log_arg |-> log_arg]

\* c_sec = c / 3600.0                                      [1e-9 1/s]
CSec(c) == FxMul(c, 100000, 3600)
\* (V / c_sec) * LD * math.log(Wi / Wf)                    [m]
BreguetRange(V, c_sec, LD, Wi, Wf) ==
    FxMul(FxMul(FxMul(V, 10000000, c_sec), LD, 100), Ln(FxMul(Wi, 10000, Wf)), 10000)

estimate_fuel_and_range(r) ==
    LET V == r.V_ms                       \* [1e-2 m/s]
        W_fuel == r.W_fuel_kg             \* [1e-1 kg]
        W_pax == r.pax * r.pax_wt_kg      \* [1e-1 kg]
        Wi == r.W_empty_kg + W_fuel + W_pax
        Wf == Wi - W_fuel
        la == Some(<<Wi, Wf>>)
        c_sec == CSec(r.c_per_hr)
        range_m == BreguetRange(V, c_sec, r.LD, Wi, Wf)
        range_km == range_m               \* [1e-3 km]
        range_nm == FxMul(range_km, 539957, 1000000)
        \* (1.0 / c) * LD * math.log(Wi / Wf)               [1e-4 hr]
        endurance_hr == FxMul(FxMul(FxMul(10000, 10000, r.c_per_hr), r.LD, 100),
                              Ln(FxMul(Wi, 10000, Wf)), 10000)
        rho == 12250                                        \* 1.225 [1e-4 kg/m^3]
        q == FxMul(FxMul(5, rho, 10), FxMul(V, V, 100), 10000)   \* [1e-2 Pa]
        lift == FxMul(Wi, 981, 100)                         \* Wi * g, g = 9.81 [1e-1 N]
        qS == FxMul(q, r.S_m2, 100)                         \* [1e-2 N]
        CL == FxMul(lift, 100000, qS)                       \* [1e-4]
        AR == FxMul(FxMul(r.b_m, r.b_m, 100), 100, r.S_m2)  \* [1e-2]
        piEAR == FxMul(FxMul(314159265, r.e, 1000000), AR, 100)  \* math.pi * e * AR [1e-4]
        k == FxDiv(100000, 100000, piEAR)                   \* [1e-6]
        CD == r.CD0 * 100 + FxMul(k, FxMul(CL, CL, 10000), 10000)  \* [1e-6]
        D == FxMul(qS, CD, 1000000)                         \* [1e-2 N]
        fuel_burn_rate == FxMul(c_sec, D, 10000000)         \* [1e-4 kg/s]
        t_sec == FxMul(W_fuel, 100000, fuel_burn_rate)      \* [1e-2 s]
    IN  IF WeightsInvalid(Wi, Wf)
        THEN HTTPException(400, "Invalid weight combination.") @@ [log_arg |-> None]
        ELSE IF c_sec = 0 \/ Wf = 0 THEN Uncaught("ZeroDivisionError", None)
        ELSE IF (Wi > 0) # (Wf > 0) \/ Wi = 0 THEN Uncaught("ValueError", la)
        ELSE IF qS = 0 \/ piEAR = 0 THEN Uncaught("ZeroDivisionError", la)
        ELSE IF fuel_burn_rate <= 0
        THEN HTTPException(400, "Computed fuel burn rate is non-positive. Check inputs.")
             @@ [log_arg |-> la]
        ELSE [kind |-> "RangeEstimate", log_arg |-> la,
              Wi_kg |-> Wi, Wf_kg |-> Wf, W_pax_kg |-> W_pax,
              range_m |-> range_m, range_km |-> range_km, range_nm |-> range_nm,
              endurance_hr |-> endurance_hr, fuel_burn_time_sec |-> t_sec,
              fuel_burn_time_min |-> t_sec \div 60, fuel_burn_time_hr |-> t_sec \div 3600,
              rho_kg_m3 |-> rho, q_Pa |-> q, CL |-> CL, AR |-> AR, k |-> k, CD |-> CD,
              drag_N |-> D, fuel_burn_rate_kg_s |-> fuel_burn_rate, V_ms |-> V]

\* POST /api/fuel-range/estimate: request validation, then the handler
FuelRangeEndpoint(r) ==
    IF \E v \in {r.V_ms, r.pax_wt_kg, r.W_empty_kg, r.W_fuel_kg, r.c_per_hr, r.LD,
                 r.S_m2, r.b_m} : ~positive_values(v)
    THEN ValidationError("Values must be positive") @@ [log_arg |-> None]
    ELSE estimate_fuel_and_range(r)

estimate_mission(r) ==
    LET Wi == r.Wi_kg                     \* [1e-1 kg]
        W_fuel == r.fuel_weight_kg
        V == r.cruise_speed_ms            \* [1e-2 m/s]
        Wf == Wi - W_fuel
        la == Some(<<Wi, Wf>>)
        c_sec == CSec(r.c_per_hr)
        R_m == BreguetRange(V, c_sec, r.LD, Wi, Wf)
        R_km == R_m                       \* [1e-3 km]
    IN  IF WeightsInvalid(Wi, Wf)
        THEN HTTPException(400, "Invalid weight combination.") @@ [log_arg |-> None]
        ELSE IF c_sec = 0 \/ Wf = 0 THEN Uncaught("ZeroDivisionError", None)
        ELSE IF (Wi > 0) # (Wf > 0) \/ Wi = 0
        THEN HTTPException(400, "Invalid input combination for Breguet equation.")
             @@ [log_arg |-> la]
        ELSE [kind |-> "MissionPlanResult", log_arg |-> la,
              Wi_kg |-> Wi, Wf_kg |-> Wf, fuel_weight_kg |-> W_fuel,
              range_m |-> R_m, range_km |-> R_km,
              range_nm |-> FxMul(R_km, 539957, 1000000),
              range_mi |-> FxMul(R_km, 621371, 1000000),
              \* R_m / V / 3600.0                           [1e-4 hr]
              time_hr |-> FxMul(FxMul(R_m, 100, V), 10000, 3600)]

\* POST /api/mission-planner/estimate: request validation, then the handler
MissionEndpoint(r) ==
    IF \E v \in {r.Wi_kg, r.fuel_weight_kg, r.cruise_speed_ms, r.c_per_hr, r.LD} :
           ~positive_values(v)
    THEN ValidationError("Values must be positive") @@ [log_arg |-> None]
    ELSE estimate_mission(r)

----------------------------------------------------------------------------
(* app/routers/ask.py                                                      *)

Whitespace == {" ", "\n"}

\* str.strip(): drop leading and trailing whitespace
RECURSIVE LStrip(_)
LStrip(str) ==
    IF str # <<>> /\ Head(str) \in Whitespace THEN LStrip(Tail(str)) ELSE str
RECURSIVE RStrip(_)
RStrip(str) ==
    IF str # <<>> /\ str[Len(str)] \in Whitespace
    THEN RStrip(SubSeq(str, 1, Len(str) - 1)) ELSE str
Strip(str) == RStrip(LStrip(str))

\* what requests.post(..., timeout=30) and the lines after it can meet
ServiceReplies ==
    {[status |-> 200, body |-> "choices", content |-> c] : c \in {<<>>, <<"a">>, <<" ", "a">>}}
    \cup {[status |-> 200, body |-> b, content |-> <<>>] : b \in {"not json", "no choices"}}
    \cup {[status |-> st, body |-> "error", content |-> <<>>] : st \in {401, 429, 500}}
    \cup {[status |-> 0, body |-> b, content |-> <<>>] : b \in {"timeout", "connection error"}}

\* the answer to a blank question (a text, as a one-element sequence)
Placeholder == <<"Ask a question about aerospace engineering.">>

\* ask up to the call of requests.post: None when the call is to be made
AskBeforePost(key, r) ==
    IF Strip(r.question) = <<>>
    THEN Some([kind |-> "Answer", answer |-> Placeholder])
    ELSE IF key = None \/ key = Some(<<>>)
    THEN Some(HTTPException(500, "GROQ_API_KEY is not set on the server."))
    ELSE None

\* ask from the return of requests.post on: the try body and its handlers
AskAfterPost(rp) ==
    IF rp.status = 0 THEN HTTPException(500, rp.body)                \* except Exception
    ELSE IF rp.status >= 400 THEN HTTPException(500, "Groq error")      \* except requests.HTTPError
    ELSE IF rp.body # "choices" THEN HTTPException(500, rp.body)     \* except Exception
    ELSE [kind |-> "Answer", answer |-> Strip(rp.content)]

\* ask that calls the service again when the call failed
AskAfterPostPcRetry(rp) ==
    IF rp.status = 200 /\ rp.body = "choices" THEN "done" ELSE "received"

\* where the handler is after the try statement: it has returned or raised
AskAfterPostPc(rp) == "done"

----------------------------------------------------------------------------
(* Requests the model serves                                               *)

MaxMachAltSteps   == 4   \* altitudes 0, 2750, ... m for /mach/compute
MaxMachSpeedSteps == 4   \* speeds 500, 1000, ... (in the request's unit)
MaxIsaSteps       == 50  \* altitudes -2000, -1000, ... m for the ISA endpoints
MaxAltSteps       == 2   \* altitudes -1, 0, ... steps for /lift-drag/compute
MaxPax            == 3   \* passenger counts -MaxPax..MaxPax
MaxQuestionLen    == 2   \* characters in a question
NumWorkers        == 2   \* worker threads serving requests concurrently

\* speeds [1e-2 m/s] next to each regime boundary at sea level
BoundarySpeeds ==
    {FxMul(t, isa_tropo(IsaGlobals, 0).a, 1000) + d : t \in {300, 800, 1200, 5000}, d \in {-1, 0, 1}}

MachRequests ==
    [altitude_m : {-1, 110000001} \cup {k * 27500000 : k \in 0..MaxMachAltSteps},
     speed_value : {-1, 0} \cup BoundarySpeeds \cup {k * 50000 : k \in 1..MaxMachSpeedSteps},
     speed_unit : MachSpeedUnit]

IsaRequests == [altitude_m : {k * 10000000 : k \in -2..MaxIsaSteps}]

LDBase == [altitude_value |-> 30000000, altitude_unit |-> "meters",
           speed_value |-> 8000, speed_unit |-> "m/s",
           wing_area_value |-> 1500, wing_area_unit |-> "m2",
           cl |-> 120, cd |-> 3, weight_value |-> None, weight_unit |-> None]

\* altitudes per unit: steps of 6000 m, 20000 ft, 6 km, and the values next to zero
LDAltitudes ==
    {<<k * 60000000, "meters">> : k \in -1..MaxAltSteps}
    \cup {<<k * 200000000, "feet">> : k \in -1..MaxAltSteps}
    \cup {<<k * 60000, "kilometers">> : k \in -1..MaxAltSteps}
    \cup {<<v, u>> : v \in {-1, 1}, u \in AltUnit}

LDWeights == {None, Some(-100000), Some(0), Some(50000), Some(2000000)}

LDRequests ==
    {[LDBase EXCEPT !.altitude_value = a[1], !.altitude_unit = a[2], !.cd = cd,
                    !.weight_value = w, !.weight_unit = wu] :
        a \in LDAltitudes, cd \in {-2, 0, 3}, w \in LDWeights,
        wu \in {None} \cup {Some(u) : u \in WeightUnit}}
    \cup
    {[LDBase EXCEPT !.speed_value = v, !.speed_unit = vu, !.wing_area_value = ar,
                    !.wing_area_unit = au, !.cl = cl, !.cd = cd] :
        v \in {-1, 0, 8000}, vu \in LDSpeedUnit, ar \in {0, 1500}, au \in AreaUnit,
        cl \in {-50, 0, 120}, cd \in {-2, 0, 3}}

FRBase == [V_ms |-> 23000, pax |-> 2, pax_wt_kg |-> 800, W_empty_kg |-> 1600,
           W_fuel_kg |-> 1000, c_per_hr |-> 5000, LD |-> 1500, S_m2 |-> 1600,
           b_m |-> 1100, CD0 |-> 200, e |-> 80]

FuelRangeRequests ==
    {[FRBase EXCEPT !.pax = p, !.W_empty_kg = we, !.CD0 = cd0, !.e = e] :
        p \in -MaxPax..MaxPax, we \in {1600, 300000}, cd0 \in {-30000, 0, 200},
        e \in {-80, 0, 80}}
    \cup
    {[FRBase EXCEPT !.V_ms = v, !.pax_wt_kg = pw, !.W_fuel_kg = wfu, !.c_per_hr = c,
                    !.LD = ld, !.S_m2 = sm, !.b_m = b] :
        v \in {0, 23000}, pw \in {0, 800}, wfu \in {-1000, 1000}, c \in {0, 5000},
        ld \in {0, 1500}, sm \in {0, 1600}, b \in {0, 1100}}

MissionRequests ==
    [Wi_kg : {0, 400000, 500000}, fuel_weight_kg : {-1, 0, 100000, 500000, 600000},
     cruise_speed_ms : {0, 23000}, c_per_hr : {0, 5000}, LD : {0, 1500}]

\* all texts of at most n characters over {" ", "\n", "a"}
RECURSIVE Texts(_)
Texts(n) ==
    IF n = 0 THEN {<<>>}
    ELSE Texts(n - 1) \cup {Append(t, c) : t \in Texts(n - 1), c \in Whitespace \cup {"a"}}

AskRequests == [question : Texts(MaxQuestionLen)]

Workers == 1..NumWorkers

\* the requests the concurrent workers draw from
ConcRequests ==
    {[endpoint |-> "/api/mach/compute", body |-> r] : r \in
        [altitude_m : {-1, 110000000}, speed_value : {0, 30000}, speed_unit : {"m/s"}]}
    \cup {[endpoint |-> "/api/lift-drag/compute", body |-> r] : r \in
        {[LDBase EXCEPT !.altitude_value = a] : a \in {-1, 120000000}}}
    \cup {[endpoint |-> "/isa/atmosphere", body |-> r] : r \in [altitude_m : {50000000}]}

----------------------------------------------------------------------------
(* State machine                                                           *)

NoRequest == [endpoint |-> "none"]
NoOutcome == [kind |-> "none"]

Init ==
    /\ req = NoRequest
    /\ out = NoOutcome
    /\ globals = IsaGlobals
    /\ wpc = [w \in Workers |-> "idle"]
    /\ wreq = [w \in Workers |-> NoRequest]
    /\ wloc = [w \in Workers |-> None]
    /\ wout = [w \in Workers |-> NoOutcome]
    /\ GROQ_API_KEY = None
    /\ apc = "idle"
    /\ calls = 0
    /\ reply = None

\* the environment may or may not define GROQ_API_KEY (os.getenv at import)
InitAsk ==
    /\ req = NoRequest
    /\ out = NoOutcome
    /\ globals = IsaGlobals
    /\ wpc = [w \in Workers |-> "idle"]
    /\ wreq = [w \in Workers |-> NoRequest]
    /\ wloc = [w \in Workers |-> None]
    /\ wout = [w \in Workers |-> NoOutcome]
    /\ GROQ_API_KEY \in {None, Some(<<>>), Some(<<"k">>)}
    /\ apc = "idle"
    /\ calls = 0
    /\ reply = None

workerVars == <<wpc, wreq, wloc, wout>>
askVars == <<GROQ_API_KEY, apc, calls, reply>>

\* Each endpoint: a request arrives at the idle server and is served from
\* validation to the outcome.
PostMachCompute ==
    /\ req = NoRequest
    /\ \E r \in MachRequests :
          /\ req' = [endpoint |-> "/api/mach/compute", body |-> r]
          /\ out' = MachEndpoint(globals, r)
    /\ UNCHANGED <<globals, workerVars, askVars>>

GetApiIsa ==
    /\ req = NoRequest
    /\ \E r \in IsaRequests :
          /\ req' = [endpoint |-> "/api/isa", body |-> r]
          /\ out' = isa_endpoint(r)
    /\ UNCHANGED <<globals, workerVars, askVars>>

PostIsaAtmosphere ==
    /\ req = NoRequest
    /\ \E r \in IsaRequests :
          /\ req' = [endpoint |-> "/isa/atmosphere", body |-> r]
          /\ out' = isa_atmosphere(globals, r)
    /\ UNCHANGED <<globals, workerVars, askVars>>

PostLiftDragCompute ==
    /\ req = NoRequest
    /\ \E r \in LDRequests :
          /\ req' = [endpoint |-> "/api/lift-drag/compute", body |-> r]
          /\ out' = LiftDragEndpoint(globals, r)
    /\ UNCHANGED <<globals, workerVars, askVars>>

PostFuelRangeEstimate ==
    /\ req = NoRequest
    /\ \E r \in FuelRangeRequests :
          /\ req' = [endpoint |-> "/api/fuel-range/estimate", body |-> r]
          /\ out' = FuelRangeEndpoint(r)
    /\ UNCHANGED <<globals, workerVars, askVars>>

PostMissionPlannerEstimate ==
    /\ req = NoRequest
    /\ \E r \in MissionRequests :
          /\ req' = [endpoint |-> "/api/mission-planner/estimate", body |-> r]
          /\ out' = MissionEndpoint(r)
    /\ UNCHANGED <<globals, workerVars, askVars>>

\* the response is sent; nothing of the request outlives it
Respond ==
    /\ req # NoRequest
    /\ apc = "idle"
    /\ req' = NoRequest
    /\ out' = NoOutcome
    /\ UNCHANGED <<globals, workerVars, askVars>>

Next ==
    \/ PostMachCompute
    \/ GetApiIsa
    \/ PostIsaAtmosphere
    \/ PostLiftDragCompute
    \/ PostFuelRangeEstimate
    \/ PostMissionPlannerEstimate
    \/ Respond

Spec == Init /\ [][Next]_vars

----------------------------------------------------------------------------
(* Worker threads serving requests concurrently.  A handler runs in three  *)
(* steps: validation and the checks before isa_tropo; the call of          *)
(* isa_tropo, which reads the module-level constants of isa.py; the rest   *)
(* of the handler on its locals.                                           *)

\* validation and the handler's checks before isa_tropo: Some(error) or None
HandlerPrecheck(rq) ==
    IF rq.endpoint = "/api/mach/compute"
    THEN IF ~speed_positive(rq.body.speed_value)
         THEN Some(ValidationError("Speed must be positive"))
         ELSE MachAltitudeError(rq.body)
    ELSE IF rq.endpoint = "/api/lift-drag/compute"
    THEN IF ~must_be_positive(rq.body.speed_value) \/ ~must_be_positive(rq.body.wing_area_value)
         THEN Some(ValidationError("Value must be positive"))
         ELSE LiftDragAltitudeError(rq.body)
    ELSE None

\* the altitude the handler passes to isa_tropo
HandlerAltitude(rq) ==
    IF rq.endpoint = "/api/lift-drag/compute" THEN LiftDragAltitude(rq.body)
    ELSE rq.body.altitude_m

\* the handler after isa_tropo returned s
HandlerFinish(s, rq) ==
    IF rq.endpoint = "/api/mach/compute" THEN MachFromAtmosphere(s, rq.body)
    ELSE IF rq.endpoint = "/api/lift-drag/compute" THEN LiftDragFromAtmosphere(s, rq.body)
    ELSE ISAResponse(s, rq.body)

WStart(w) ==
    /\ wpc[w] = "idle"
    /\ \E rq \in ConcRequests : wreq' = [wreq EXCEPT ![w] = rq]
    /\ wpc' = [wpc EXCEPT ![w] = "start"]
    /\ UNCHANGED <<req, out, globals, wloc, wout, askVars>>

WReject(w) ==
    /\ wpc[w] = "start"
    /\ HandlerPrecheck(wreq[w]) # None
    /\ wout' = [wout EXCEPT ![w] = HandlerPrecheck(wreq[w])[1]]
    /\ wpc' = [wpc EXCEPT ![w] = "done"]
    /\ UNCHANGED <<req, out, globals, wreq, wloc, askVars>>

WAtmosphere(w) ==
    /\ wpc[w] = "start"
    /\ HandlerPrecheck(wreq[w]) = None
    /\ wloc' = [wloc EXCEPT ![w] = Some(isa_tropo(globals, HandlerAltitude(wreq[w])))]
    /\ globals' = isa_tropo_globals(globals, HandlerAltitude(wreq[w]))
    /\ wpc' = [wpc EXCEPT ![w] = "atmos"]
    /\ UNCHANGED <<req, out, wreq, wout, askVars>>

WFinish(w) ==
    /\ wpc[w] = "atmos"
    /\ wout' = [wout EXCEPT ![w] = HandlerFinish(wloc[w][1], wreq[w])]
    /\ wpc' = [wpc EXCEPT ![w] = "done"]
    /\ UNCHANGED <<req, out, globals, wreq, wloc, askVars>>

WRespond(w) ==
    /\ wpc[w] = "done"
    /\ wpc' = [wpc EXCEPT ![w] = "idle"]
    /\ wreq' = [wreq EXCEPT ![w] = NoRequest]
    /\ wloc' = [wloc EXCEPT ![w] = None]
    /\ wout' = [wout EXCEPT ![w] = NoOutcome]
    /\ UNCHANGED <<req, out, globals, askVars>>

NextConc ==
    \E w \in Workers :
        \/ WStart(w)
        \/ WReject(w)
        \/ WAtmosphere(w)
        \/ WFinish(w)
        \/ WRespond(w)

SpecConc == Init /\ [][NextConc]_vars

----------------------------------------------------------------------------
(* The question-answering handler.  requests.post blocks until the service *)
(* replies or the 30 s timeout ends the wait.                              *)

AskReceive ==
    /\ apc = "idle"
    /\ \E r \in AskRequests : req' = [endpoint |-> "/ask/", body |-> r]
    /\ apc' = "received"
    /\ UNCHANGED <<out, globals, workerVars, GROQ_API_KEY, calls, reply>>

AskReturnEarly ==
    /\ apc = "received"
    /\ AskBeforePost(GROQ_API_KEY, req.body) # None
    /\ out' = AskBeforePost(GROQ_API_KEY, req.body)[1]
    /\ apc' = "done"
    /\ UNCHANGED <<req, globals, workerVars, GROQ_API_KEY, calls, reply>>

AskPost ==
    /\ apc = "received"
    /\ AskBeforePost(GROQ_API_KEY, req.body) = None
    /\ calls' = calls + 1
    /\ apc' = "posted"
    /\ UNCHANGED <<req, out, globals, workerVars, GROQ_API_KEY, reply>>

AskReply ==
    /\ apc = "posted"
    /\ \E rp \in ServiceReplies :
          /\ reply' = Some(rp)
          /\ out' = AskAfterPost(rp)
          /\ apc' = AskAfterPostPc(rp)
    /\ UNCHANGED <<req, globals, workerVars, GROQ_API_KEY, calls>>

AskRespond ==
    /\ apc = "done"
    /\ apc' = "idle"
    /\ req' = NoRequest
    /\ out' = NoOutcome
    /\ calls' = 0
    /\ reply' = None
    /\ UNCHANGED <<globals, workerVars, GROQ_API_KEY>>

NextAsk ==
    \/ AskReceive
    \/ AskReturnEarly
    \/ AskPost
    \/ AskReply
    \/ AskRespond

SpecAsk == InitAsk /\ [][NextAsk]_vars

\* the handler runs on, and the timeout bounds the wait for the service
SpecAskFair ==
    SpecAsk /\ WF_vars(AskReturnEarly) /\ WF_vars(AskPost) /\ WF_vars(AskReply)

----------------------------------------------------------------------------
(* Properties                                                              *)

IsMach      == req.endpoint = "/api/mach/compute"
IsLiftDrag  == req.endpoint = "/api/lift-drag/compute"
IsFuelRange == req.endpoint = "/api/fuel-range/estimate"
IsMission   == req.endpoint = "/api/mission-planner/estimate"
IsIsa       == req.endpoint \in {"/api/isa", "/isa/atmosphere"}

\* C1: the flow regime of a MachResult is decided by its mach alone, in bands
\* closed below and open above: below 0.3 Incompressible, from 0.3 Subsonic,
\* from 0.8 Transonic, from 1.2 Supersonic, from 5.0 Hypersonic.
C1_RegimeBands ==
    out.kind = "MachResult" =>
        /\ (out.flow_regime = "Incompressible") <=> (out.mach < 300)
        /\ (out.flow_regime = "Subsonic") <=> (300 <= out.mach /\ out.mach < 800)
        /\ (out.flow_regime = "Transonic") <=> (800 <= out.mach /\ out.mach < 1200)
        /\ (out.flow_regime = "Supersonic") <=> (1200 <= out.mach /\ out.mach < 5000)
        /\ (out.flow_regime = "Hypersonic") <=> (5000 <= out.mach)

\* a result whose mach is exactly a boundary
C1_Witness ==
    /\ out.kind = "MachResult"
    /\ out.mach \in {300, 800, 1200, 5000}

\* C2: compute_mach returns a MachResult exactly when 0 <= altitude_m <= 11000
\* and speed_value > 0; every other request is rejected as InvalidInput, and
\* no request ends in the internal error.
C2_MachAcceptance ==
    IsMach =>
        /\ (out.kind = "MachResult") <=>
               (/\ 0 <= req.body.altitude_m
                /\ req.body.altitude_m <= 110000000
                /\ req.body.speed_value > 0)
        /\ out.kind \in {"MachResult", "InvalidInput"}

\* a result at exactly 11000 m, the last accepted altitude
C2_Witness ==
    /\ IsMach
    /\ req.body.altitude_m = 110000000
    /\ out.kind = "MachResult"

\* T, P, rho, a of an Atmosphere outcome
AtmosphereTuple(o) ==
    [T |-> o.temperature_K, P |-> o.pressure_Pa, rho |-> o.density_kg_m3,
     a |-> o.speed_of_sound_m_s]

\* C3: every atmosphere result of every entry point is the ISA formula at the
\* altitude clamped to [0, 11000] m, with a temperature > 0.
C3_AtmosphereClamped ==
    IsIsa =>
        /\ out.kind = "Atmosphere"
        /\ out.temperature_K > 0
        /\ AtmosphereTuple(out) =
               IsaFormula(IF req.endpoint = "/api/isa" THEN MainLocals ELSE IsaGlobals,
                          Clamp(req.body.altitude_m))

\* the weight of the request in newtons, when value and unit are both given
WeightSupplied == req.body.weight_value # None /\ req.body.weight_unit # None
WeightInNewtons ==
    IF req.body.weight_unit[1] = "N" THEN req.body.weight_value[1]
    ELSE 4 * req.body.weight_value[1] + FxMul(req.body.weight_value[1], 448221615, 1000000000)
WeightPositive == WeightSupplied /\ WeightInNewtons > 0

\* C4 as stated: weight_N, load_factor and lift_excess_N are present if and
\* only if a weight was supplied and is > 0 in newtons.
C4_AllThreeIffPositive ==
    out.kind = "LiftDragResult" =>
        /\ (out.weight_N # None) <=> WeightPositive
        /\ (out.load_factor # None) <=> WeightPositive
        /\ (out.lift_excess_N # None) <=> WeightPositive

\* C4 amended: load_factor and lift_excess_N are present if and only if a
\* weight (value and unit) was supplied and is > 0 in newtons; weight_N is
\* present, with the converted weight, whenever value and unit were supplied,
\* also when that weight is zero or negative.
C4_MetricsIffPositive ==
    out.kind = "LiftDragResult" =>
        /\ (out.load_factor # None) <=> WeightPositive
        /\ (out.lift_excess_N # None) <=> WeightPositive
        /\ (out.weight_N # None) <=> WeightSupplied
        /\ WeightSupplied => out.weight_N = Some(WeightInNewtons)
        /\ WeightPositive =>
               /\ out.load_factor = Some(FxMul(out.lift_N, 10000, WeightInNewtons))
               /\ out.lift_excess_N = Some(out.lift_N - WeightInNewtons)

\* a result for a supplied weight that is not positive
C4_Witness ==
    /\ out.kind = "LiftDragResult"
    /\ WeightSupplied
    /\ WeightInNewtons <= 0
    /\ out.weight_N # None
    /\ out.load_factor = None

\* the request passed the validators of LiftDragRequest
LiftDragValidated == IsLiftDrag /\ req.body.speed_value > 0 /\ req.body.wing_area_value > 0
\* its altitude in meters [1e-4 m]
AltitudeInMeters ==
    IF req.body.altitude_unit = "meters" THEN req.body.altitude_value
    ELSE IF req.body.altitude_unit = "feet" THEN FxMul(req.body.altitude_value, 3048, 10000)
    ELSE req.body.altitude_value * 1000

\* C5: every accepted lift/drag request, whatever cl and cd, gets a result
\* with ld_ratio = lift_N / drag_N when drag_N > 0 and ld_ratio = 0 otherwise.
C5_LdRatio ==
    /\ (LiftDragValidated /\ AltitudeInMeters >= 0) => out.kind = "LiftDragResult"
    /\ out.kind = "LiftDragResult" =>
           /\ out.drag_N > 0 => out.ld_ratio = FxMul(out.lift_N, 10000, out.drag_N)
           /\ out.drag_N <= 0 => out.ld_ratio = 0

\* a result with a negative drag (cd < 0) and a lift that is not zero
C5_Witness ==
    /\ out.kind = "LiftDragResult"
    /\ out.drag_N < 0
    /\ out.lift_N # 0
    /\ out.ld_ratio = 0

\* the derived weights of a fuel-and-range request and of a mission request
FRWi == req.body.W_empty_kg + req.body.W_fuel_kg + req.body.pax * req.body.pax_wt_kg
FRWf == FRWi - req.body.W_fuel_kg
FuelRangeValidated ==
    /\ IsFuelRange
    /\ \A v \in {req.body.V_ms, req.body.pax_wt_kg, req.body.W_empty_kg, req.body.W_fuel_kg,
                  req.body.c_per_hr, req.body.LD, req.body.S_m2, req.body.b_m} : v > 0
MPWf == req.body.Wi_kg - req.body.fuel_weight_kg
MissionValidated ==
    /\ IsMission
    /\ \A v \in {req.body.Wi_kg, req.body.fuel_weight_kg, req.body.cruise_speed_ms,
                  req.body.c_per_hr, req.body.LD} : v > 0

\* C6: in both range calculators Wf = Wi - fuel (and Wi = W_empty + W_fuel +
\* pax*pax_wt in the estimator); a result is returned only if Wi > Wf > 0;
\* a request with Wf <= 0 or Wi <= Wf is rejected as InvalidInput before the
\* logarithm is evaluated, the logarithm is only evaluated on Wi > Wf > 0, and
\* the mission planner never reports the logarithm-domain rejection.
C6_Weights ==
    /\ FuelRangeValidated =>
           /\ (FRWf <= 0 \/ FRWi <= FRWf) =>
                  (out.kind = "InvalidInput" /\ out.status = 400 /\ out.log_arg = None)
           /\ out.log_arg # None =>
                  (out.log_arg = Some(<<FRWi, FRWf>>) /\ FRWi > FRWf /\ FRWf > 0)
    /\ out.kind = "RangeEstimate" =>
           /\ FuelRangeValidated
           /\ out.Wi_kg = FRWi /\ out.Wf_kg = FRWf
           /\ out.Wi_kg > out.Wf_kg /\ out.Wf_kg > 0
    /\ MissionValidated =>
           /\ (MPWf <= 0 \/ req.body.Wi_kg <= MPWf) =>
                  (out.kind = "InvalidInput" /\ out.status = 400 /\ out.log_arg = None)
           /\ out.log_arg # None =>
                  (out.log_arg = Some(<<req.body.Wi_kg, MPWf>>) /\ req.body.Wi_kg > MPWf /\ MPWf > 0)
           /\ out.kind = "InvalidInput" =>
                  out.detail # "Invalid input combination for Breguet equation."
    /\ out.kind = "MissionPlanResult" =>
           /\ MissionValidated
           /\ out.Wi_kg = req.body.Wi_kg /\ out.Wf_kg = MPWf
           /\ out.Wi_kg > out.Wf_kg /\ out.Wf_kg > 0

\* the estimator rejects a negative passenger count that leaves no final mass
C6_Witness ==
    /\ FuelRangeValidated
    /\ req.body.pax < 0
    /\ FRWf <= 0
    /\ out.kind = "InvalidInput"
    /\ out.status = 400

\* C7: a fuel-and-range request whose validated fields are positive, with any
\* pax, CD0 and e, ends either in a complete RangeEstimate with
\* fuel_burn_rate > 0 or in an InvalidInput rejection, and in nothing else.
C7_TwoOutcomes ==
    FuelRangeValidated =>
        \/ out.kind = "RangeEstimate" /\ out.fuel_burn_rate_kg_s > 0
        \/ out.kind = "InvalidInput" /\ out.status = 400

\* C8: a validated lift/drag request is rejected as InvalidInput exactly when
\* its altitude in meters (feet x0.3048, kilometers x1000) is negative; every
\* other one gets a result whose altitude_m is that altitude clamped to
\* [0, 11000] m.
C8_AltitudeRule ==
    LiftDragValidated =>
        /\ AltitudeInMeters < 0 => (out.kind = "InvalidInput" /\ out.status = 400)
        /\ AltitudeInMeters >= 0 =>
               /\ out.kind = "LiftDragResult"
               /\ out.altitude_m = Clamp(AltitudeInMeters)
               /\ 0 <= out.altitude_m /\ out.altitude_m <= 110000000

\* a result for an altitude above 11000 m, given in feet
C8_Witness ==
    /\ LiftDragValidated
    /\ req.body.altitude_unit = "feet"
    /\ AltitudeInMeters > 110000000
    /\ out.kind = "LiftDragResult"
    /\ out.altitude_m = 110000000

\* the outcome of a request served alone, from validation to the response
ServedAlone(rq) ==
    IF rq.endpoint = "/api/mach/compute" THEN MachEndpoint(IsaGlobals, rq.body)
    ELSE IF rq.endpoint = "/api/lift-drag/compute" THEN LiftDragEndpoint(IsaGlobals, rq.body)
    ELSE isa_atmosphere(IsaGlobals, rq.body)

\* C9: under every interleaving of the workers' steps the outcome of each
\* request is the outcome it has when served alone, and the state the handlers
\* share (the module-level constants) is never written.
C9_Independent ==
    /\ globals = IsaGlobals
    /\ \A w \in Workers : wpc[w] = "done" => wout[w] = ServedAlone(wreq[w])

\* one worker has finished a Mach request that another worker's call of
\* isa_tropo overlapped
C9_Witness ==
    \E w1, w2 \in Workers :
        /\ w1 # w2
        /\ wpc[w1] = "done" /\ wout[w1].kind = "MachResult"
        /\ wpc[w2] = "atmos" /\ wreq[w2].endpoint = "/api/lift-drag/compute"

\* the service call succeeded: status 200 and a body with choices
ReplyOk == reply # None /\ reply[1].status = 200 /\ reply[1].body = "choices"

AskSafe ==
    /\ calls <= 1
    /\ apc = "posted" => calls = 1
    /\ apc = "done" =>
           IF Strip(req.body.question) = <<>>
           THEN calls = 0 /\ out = [kind |-> "Answer", answer |-> Placeholder]
           ELSE IF GROQ_API_KEY \in {None, Some(<<>>)}
           THEN calls = 0 /\ out.kind = "InternalError"
           ELSE /\ calls = 1
                /\ reply # None
                /\ ReplyOk => out.kind = "Answer"
                /\ ~ReplyOk => out.kind = "InternalError"

\* C10: every request to ask terminates after at most one call of the
\* external service: a blank question gets the placeholder and a missing key
\* an error, both without a call; otherwise exactly one call is made, whose
\* success yields an answer and whose failure yields an error, with no retry.
C10_AskTerminates ==
    /\ []AskSafe
    /\ (apc \in {"received", "posted"}) ~> (apc = "done")

\* the one call failed and the request ended in an error
C10_Witness ==
    /\ apc = "done"
    /\ calls = 1
    /\ ~ReplyOk
    /\ out.kind = "InternalError"

====
